---- MODULE Spec2Model ----
(***************************************************************************)
(* Model of the NBA forecasting pipeline:                                  *)
(*   - src/src/ingest_boxscores.py   (ingest_date and the store writes)    *)
(*   - src/src/build_features_real.py (build_features, rolling features)   *)
(*   - src/src/build_model_dataset.py (train_test_split)                   *)
(*   - src/src/run_daily_pipeline.py, src/.github/scripts/run_full_pipeline.py *)
(*   - src/scripts/prelock_trigger.py (the pre-lock scans)                 *)
(* Six specifications share the module: Spec (ingestion and the feature    *)
(* build over the SQLite store), SpecRolling (the rolling-feature          *)
(* statements applied to a frame), SpecSplit (train_test_split applied to  *)
(* a table), SpecPipeline (one run of a pipeline runner), SpecMinutes      *)
(* (clean_minutes applied to an argument) and SpecTrigger (the pre-lock    *)
(* scans of one day).                                                      *)
(***************************************************************************)
EXTENDS Integers, Sequences, FiniteSets, TLC

\* ------------------------------------------------------------------ bounds
NGames == 3          \* games the provider can list for the date
NPlayers == 2        \* player rows in one game's boxscore
MaxRuns == 2         \* consecutive ingest_date calls for the date

GameIds == 1..NGames
PlayerIds == 1..NPlayers
Keys == GameIds \X PlayerIds

VARIABLES
    \* --- the SQLite store (db.py, sql/schema.sql)
    games,          \* set of game_id: rows of table games
    boxscores,      \* [Keys -> Nat]: number of rows of table boxscores per (game_id, player_id)
    uniqueKey,      \* whether the schema declares (game_id, player_id) unique
    \* --- the provider, for the requested date
    nGames,         \* the provider lists games 1..nGames for the date
    \* --- ingest_date
    pc,             \* "idle" | "fetch" | "sleep" ("off" where ingestion is not modelled)
    idx,            \* position of the loop of line 188 in games["game_id"]
    listResp,       \* what fetch_games_for_date met in this call
    fetched,        \* [GameIds -> result of fetch_boxscores in this call]
    attempts,       \* [GameIds -> number of BoxScoreTraditionalV2 calls in this call]
    outcome,        \* how the last ingest_date call ended
    runs,           \* the ended ingest_date calls, oldest first
    \* --- build_features
    teamLocs,       \* whether data/static/team_locations.csv exists
    bfOutcome,      \* the last build_features call: the boxscores rows it read, how it ended
    featureTable,   \* rows of outputs/features.csv (none while the file is absent)
    \* --- rolling statements of build_features
    rdf,            \* the frame, sorted by (player_id, game_date)
    rollSrc,        \* per row and window: the rows the rolling mean was taken over
    oppSrc,         \* per row and window: the (opponent, date) groups of the opponent mean
    rstage,         \* "input" | "rolled" ("off" where the statements are not modelled)
    \* --- train_test_split
    sdf,            \* the table handed to train_test_split
    cutoffArg,      \* the cutoff_date argument: <<>> for None, <<d>> for a date
    train, test,    \* the returned frames
    cutoff_date,    \* the returned cutoff
    splitOutcome,   \* "none" | "returned" | "raised" ("off" where the split is not modelled)
    \* --- provider calls of ingest_date
    calls,          \* this call's provider calls and sleeps, in order: "list" | "box" | "sleep"
    \* --- the pipeline runners (run_daily_pipeline.py, run_full_pipeline.py)
    pkind,          \* "daily" | "full" ("off" where no runner is modelled)
    date_override,  \* run_full_pipeline: whether a date was given on the command line
    skip_flag,      \* run_full_pipeline: SKIP_YESTERDAY_BACKFILL == "1"
    pstep,          \* position of main
    cmds,           \* the steps main has launched, in order
    \* --- clean_minutes
    min_str,        \* the argument
    cmResult,       \* what the call gave: a value (in sixtieths of a minute) or an exception
    \* --- prelock_trigger.py
    eventLog,       \* scripts/logs/prelock_events.json: today's game ids, or unreadable
    log_dict,       \* the scan's copy of today's entry of the event log
    dispatched,     \* [game_id -> workflow dispatches GitHub received]
    tpc,            \* "idle" | "loop" ("off" where the scans are not modelled)
    tidx,           \* position of the loop of line 96
    scans           \* scans started so far

storeVars == <<games, boxscores, uniqueKey>>
ingestVars == <<nGames, pc, idx, listResp, fetched, attempts, outcome, runs, calls>>
featVars == <<teamLocs, bfOutcome, featureTable>>
rollVars == <<rdf, rollSrc, oppSrc, rstage>>
splitVars == <<sdf, cutoffArg, train, test, cutoff_date, splitOutcome>>
pipeVars == <<pkind, date_override, skip_flag, pstep, cmds>>
minVars == <<min_str, cmResult>>
trigVars == <<eventLog, log_dict, dispatched, tpc, tidx, scans>>
extVars == <<pipeVars, minVars, trigVars>>
vars == <<storeVars, ingestVars, featVars, rollVars, splitVars, extVars>>

\* ------------------------------------------------------- the SQLite store

NoRows == [k \in Keys |-> 0]

\* The rows fetch_boxscores returns for one game: one per player.
BoxRows(g) == {<<g, p>> : p \in PlayerIds}

\* upsert_games: INSERT OR REPLACE keyed by game_id, one transaction.
upsert_games(tbl, df_games) == tbl \cup df_games

\* Whether INSERT of these rows meets an existing row with the same key
\* under a unique (game_id, player_id) constraint.
KeyConflict(tbl, rows) == \E k \in rows : tbl[k] > 0

\* insert_boxscores: plain INSERT of every row, one transaction.
insert_boxscores(tbl, rows) ==
    [k \in Keys |-> IF k \in rows THEN tbl[k] + 1 ELSE tbl[k]]

\* ------------------------------------------------------------ ingest_date

NoFetch == [g \in GameIds |-> "none"]
NoAttempts == [g \in GameIds |-> 0]

Listed == 1..nGames

RunRecord(o) ==
    [list |-> listResp', fetched |-> fetched', attempts |-> attempts',
     outcome |-> o, games |-> games', box |-> boxscores']

\* The call ends: ingest_date returns or an exception leaves it.
EndRun(o) ==
    /\ pc' = "idle"
    /\ outcome' = o
    /\ runs' = Append(runs, RunRecord(o))

CanStart == pc = "idle" /\ Len(runs) < MaxRuns

StartVars ==
    /\ fetched' = NoFetch
    /\ attempts' = NoAttempts
    /\ idx' = 0
    /\ calls' = <<"list">>

\* requests.get raises (provider unreachable, timeout): the exception
\* leaves ingest_date.
IngestListUnreachable ==
    /\ CanStart
    /\ StartVars
    /\ listResp' = "unreachable"
    /\ UNCHANGED <<storeVars, nGames, featVars, rollVars, splitVars, extVars>>
    /\ EndRun("raised")

\* status_code != 200: fetch_games_for_date returns an empty frame and
\* ingest_date prints "No games to process." and returns.
IngestListHttpError ==
    /\ CanStart
    /\ StartVars
    /\ listResp' = "http_error"
    /\ UNCHANGED <<storeVars, nGames, featVars, rollVars, splitVars, extVars>>
    /\ EndRun("returned_no_games")

\* 200 with an empty games list: the same return.
IngestListEmpty ==
    /\ CanStart
    /\ nGames = 0
    /\ StartVars
    /\ listResp' = "ok"
    /\ UNCHANGED <<storeVars, nGames, featVars, rollVars, splitVars, extVars>>
    /\ EndRun("returned_no_games")

\* 200 with games: upsert_games writes every Game row, then the loop starts.
IngestListOk ==
    /\ CanStart
    /\ nGames > 0
    /\ fetched' = NoFetch
    /\ attempts' = NoAttempts
    /\ listResp' = "ok"
    /\ games' = upsert_games(games, Listed)
    /\ calls' = <<"list">>
    /\ idx' = 1
    /\ pc' = "fetch"
    /\ outcome' = "running"
    /\ UNCHANGED <<boxscores, uniqueKey, nGames, runs, featVars, rollVars, splitVars, extVars>>

\* fetch_boxscores raises (transient or permanent): nothing catches it.
FetchFail(kind) ==
    /\ pc = "fetch"
    /\ fetched' = [fetched EXCEPT ![idx] = kind]
    /\ attempts' = [attempts EXCEPT ![idx] = @ + 1]
    /\ calls' = Append(calls, "box")
    /\ UNCHANGED <<storeVars, nGames, idx, listResp, featVars, rollVars, splitVars, extVars>>
    /\ EndRun("raised")

\* fetch_boxscores returns and insert_boxscores meets a unique-key conflict:
\* sqlite3 raises IntegrityError, the connection rolls back.
FetchOkInsertConflict ==
    /\ pc = "fetch"
    /\ uniqueKey /\ KeyConflict(boxscores, BoxRows(idx))
    /\ fetched' = [fetched EXCEPT ![idx] = "ok"]
    /\ attempts' = [attempts EXCEPT ![idx] = @ + 1]
    /\ calls' = Append(calls, "box")
    /\ UNCHANGED <<storeVars, nGames, idx, listResp, featVars, rollVars, splitVars, extVars>>
    /\ EndRun("raised")

\* fetch_boxscores returns and insert_boxscores commits the rows.
FetchOkInsert ==
    /\ pc = "fetch"
    /\ ~(uniqueKey /\ KeyConflict(boxscores, BoxRows(idx)))
    /\ fetched' = [fetched EXCEPT ![idx] = "ok"]
    /\ attempts' = [attempts EXCEPT ![idx] = @ + 1]
    /\ calls' = Append(calls, "box")
    /\ boxscores' = insert_boxscores(boxscores, BoxRows(idx))
    /\ pc' = "sleep"
    /\ UNCHANGED <<games, uniqueKey, nGames, idx, listResp, outcome, runs,
                   featVars, rollVars, splitVars, extVars>>

\* time.sleep(0.7), then the next game of the loop.
SleepNext ==
    /\ pc = "sleep"
    /\ idx < nGames
    /\ idx' = idx + 1
    /\ calls' = Append(calls, "sleep")
    /\ pc' = "fetch"
    /\ UNCHANGED <<storeVars, nGames, listResp, fetched, attempts, outcome, runs,
                   featVars, rollVars, splitVars, extVars>>

\* time.sleep(0.7) after the last game: "Ingestion complete".
SleepDone ==
    /\ pc = "sleep"
    /\ idx = nGames
    /\ calls' = Append(calls, "sleep")
    /\ UNCHANGED <<storeVars, nGames, idx, listResp, fetched, attempts,
                   featVars, rollVars, splitVars, extVars>>
    /\ EndRun("returned_complete")

\* The process is terminated while the loop runs.
Kill ==
    /\ pc \in {"fetch", "sleep"}
    /\ UNCHANGED calls
    /\ UNCHANGED <<storeVars, nGames, idx, listResp, fetched, attempts,
                   featVars, rollVars, splitVars, extVars>>
    /\ EndRun("killed")

\* ---------------------------------------------------------- build_features

NotBuilt == [read |-> {}, result |-> "none"]

\* One row of the boxscores table per stored record, duplicates counted.
StoredRows(tbl) == {<<k, c>> \in Keys \X (1..MaxRuns) : c <= tbl[k]}

\* build_features as the file defines it: the function body ends before
\* "def compute_travel" (line 132, column 0); the travel, rolling,
\* opponent-allowed and to_csv statements (lines 154-218) follow the return
\* of compute_travel and are never executed.
BuildFeatures ==
    /\ pc = "idle"
    /\ bfOutcome' =
         [read |-> StoredRows(boxscores),
          result |-> IF games = {} \/ boxscores = NoRows THEN "returned_no_data"
                     ELSE IF ~teamLocs THEN "raised_missing_locations"
                     ELSE "returned"]
    /\ UNCHANGED <<storeVars, ingestVars, teamLocs, featureTable, rollVars, splitVars, extVars>>

\* ------------------------------------------- rolling statements (163-209)

RDates == 6          \* dates a frame can span
NTeams == 2          \* opponent teams
RPlayers == 1..2
Windows == {5, 10}

\* df.sort_values(["player_id", "game_date"])
ByPlayerDate(a, b) ==
    \/ a.player_id < b.player_id
    \/ a.player_id = b.player_id /\ a.game_date < b.game_date

\* Rows of one player's group, as positions of the sorted frame.
GroupIdx(df, p) == {j \in 1..Len(df) : df[j].player_id = p}

PosInGroup(df, i) ==
    Cardinality({j \in GroupIdx(df, df[i].player_id) : j <= i})

\* groupby("player_id")[col].rolling(w, min_periods=1): the window of row i
\* is the last w rows of its group ending at row i.
RollingWindow(df, i, w) ==
    {j \in GroupIdx(df, df[i].player_id) :
        j <= i /\ PosInGroup(df, i) - PosInGroup(df, j) < w}

\* groupby(["opponent_team_id", "game_date"]): the dates on which an
\* opponent has a group.
OppDates(df, o) == {df[j].game_date : j \in {x \in 1..Len(df) : df[x].opponent_team_id = o}}

\* opp.groupby("opponent_team_id")[col].rolling(w, min_periods=1), joined
\* back on (opponent_team_id, game_date): the window of a row is the last w
\* dates of its opponent ending at the row's own date.
OppWindow(df, i, w) ==
    LET ds == OppDates(df, df[i].opponent_team_id)
        d == df[i].game_date
    IN {e \in ds : e <= d /\ Cardinality({x \in ds : e < x /\ x <= d}) < w}

\* The frame before line 163: one row per (game, player) played, in the
\* order of the boxscores table.
ByDatePlayer(a, b) ==
    \/ a.game_date < b.game_date
    \/ a.game_date = b.game_date /\ a.player_id < b.player_id

FrameOf(played, sched) ==
    LET cells == {[player_id |-> c[1], game_date |-> c[2],
                   opponent_team_id |-> sched[c[2]]] : c \in played}
        Rank(r) == Cardinality({q \in cells : ByDatePlayer(q, r)}) + 1
    IN [k \in 1..Cardinality(cells) |-> CHOOSE r \in cells : Rank(r) = k]

ComputeRolling ==
    /\ rstage = "input"
    /\ LET df == SortSeq(rdf, ByPlayerDate)
       IN /\ rdf' = df
          /\ rollSrc' = [i \in 1..Len(df) |-> [w \in Windows |-> RollingWindow(df, i, w)]]
          /\ oppSrc' = [i \in 1..Len(df) |-> [w \in Windows |-> OppWindow(df, i, w)]]
    /\ rstage' = "rolled"
    /\ UNCHANGED <<storeVars, ingestVars, featVars, splitVars, extVars>>

\* -------------------------------------------------------- train_test_split

MaxRows == 6         \* rows of an enumerated table
MaxDate == 3         \* dates of an enumerated table
ExampleRows == 100   \* the 100-row table with one row per date

None == <<>>

ByDate(a, b) == a.game_date < b.game_date

\* int(len(df) * 0.80)
CutoffIndex(n) == (n * 80) \div 100

\* The train filter with the cutoff date left out.
TrainFrameStrict(df, c) == SelectSeq(df, LAMBDA r : r.game_date < c)

\* df[df["game_date"] <= cutoff_date]
TrainFrame(df, c) == SelectSeq(df, LAMBDA r : r.game_date <= c)

\* df[df["game_date"] > cutoff_date]
TestFrame(df, c) == SelectSeq(df, LAMBDA r : r.game_date > c)

TrainTestSplit ==
    /\ splitOutcome = "none"
    /\ LET df == SortSeq(sdf, ByDate)
       IN IF cutoffArg = None /\ CutoffIndex(Len(df)) >= Len(df)
          THEN \* df.iloc[cutoff_index] raises IndexError
               /\ splitOutcome' = "raised"
               /\ UNCHANGED <<train, test, cutoff_date>>
          ELSE LET c == IF cutoffArg = None
                        THEN df[CutoffIndex(Len(df)) + 1].game_date
                        ELSE cutoffArg[1]
               IN /\ train' = TrainFrame(df, c)
                  /\ test' = TestFrame(df, c)
                  /\ cutoff_date' = c
                  /\ splitOutcome' = "returned"
    /\ UNCHANGED <<storeVars, ingestVars, featVars, rollVars, sdf, cutoffArg, extVars>>

\* ------------------------------------------------------ pipeline runners

NoOverride == "none"
Overrides == {NoOverride, "yesterday", "2024-01-15"}

\* run_full_pipeline.main: ingest_date = date_override if given, else "yesterday".
IngestDateArg(o) == IF o = NoOverride THEN "yesterday" ELSE o

\* The flag never read as set.
SkipIngestFlagUnread(o, flag) == FALSE

\* ingest_date == "yesterday" and skip_yesterday_backfill
SkipIngest(o, flag) == IngestDateArg(o) = "yesterday" /\ flag

\* Exit status of python src/ingest_boxscores.py: 0 when ingest_date returned.
IngestExitOk == outcome \in {"returned_no_games", "returned_complete"}

\* Exit status of python src/build_features_real.py.
FeaturesExitOk == bfOutcome.result \in {"returned", "returned_no_data"}

Launch(step) ==
    /\ pstep' = step
    /\ cmds' = Append(cmds, step)

\* main starts the ingestion subprocess (run_daily_pipeline line 38,
\* run_full_pipeline line 34).
LaunchIngest ==
    /\ pstep = "start"
    /\ pkind = "daily" \/ ~SkipIngest(date_override, skip_flag)
    /\ Launch("ingest")
    /\ UNCHANGED <<storeVars, ingestVars, featVars, rollVars, splitVars,
                   pkind, date_override, skip_flag, minVars, trigVars>>

\* run_full_pipeline: the ingest is skipped and the feature build starts.
SkipIngestLaunchFeatures ==
    /\ pstep = "start"
    /\ pkind = "full" /\ SkipIngest(date_override, skip_flag)
    /\ Launch("features")
    /\ UNCHANGED <<storeVars, ingestVars, featVars, rollVars, splitVars,
                   pkind, date_override, skip_flag, minVars, trigVars>>

\* The ingestion subprocess has ended. run_daily_pipeline raises SystemExit
\* on a non-zero status; run_full_pipeline catches CalledProcessError and
\* goes on to the feature build.
IngestEnded ==
    /\ pstep = "ingest"
    /\ pc = "idle" /\ Len(runs) = 1
    /\ IF pkind = "daily" /\ ~IngestExitOk
       THEN pstep' = "exit" /\ UNCHANGED cmds
       ELSE Launch("features")
    /\ UNCHANGED <<storeVars, ingestVars, featVars, rollVars, splitVars,
                   pkind, date_override, skip_flag, minVars, trigVars>>

\* The feature-build subprocess has ended: both runners stop on a non-zero
\* status, else the dataset build starts.
FeaturesEnded ==
    /\ pstep = "features"
    /\ bfOutcome # NotBuilt
    /\ IF FeaturesExitOk
       THEN Launch("dataset")
       ELSE pstep' = "exit" /\ UNCHANGED cmds
    /\ UNCHANGED <<storeVars, ingestVars, featVars, rollVars, splitVars,
                   pkind, date_override, skip_flag, minVars, trigVars>>

\* The dataset-build subprocess has ended: load_features raises when
\* outputs/features.csv is missing, and both runners stop on that status.
DatasetEnded ==
    /\ pstep = "dataset"
    /\ pstep' = IF featureTable = {} THEN "exit" ELSE "models"
    /\ UNCHANGED <<storeVars, ingestVars, featVars, rollVars, splitVars,
                   pkind, date_override, skip_flag, cmds, minVars, trigVars>>

\* The ingestion subprocess runs ingest_date once.
PipeIngestStart ==
    /\ pstep = "ingest" /\ runs = <<>>
    /\ \/ IngestListUnreachable
       \/ IngestListHttpError
       \/ IngestListEmpty
       \/ IngestListOk

PipeIngestLoop ==
    /\ pstep = "ingest"
    /\ \/ FetchFail("transient")
       \/ FetchFail("permanent")
       \/ FetchOkInsert
       \/ SleepNext
       \/ SleepDone
       \/ Kill

\* The feature-build subprocess runs build_features once.
PipeBuildFeatures ==
    /\ pstep = "features" /\ bfOutcome = NotBuilt
    /\ BuildFeatures

\* ------------------------------------------------------------ clean_minutes

MaxStrLen == 5       \* characters of a minutes text
MaxNum == 2          \* largest numeric minutes argument

Digits == {"2", "3", "4", "5"}
Chars == Digits \cup {":", "x"}

DigitVal(c) == CASE c = "2" -> 2 [] c = "3" -> 3 [] c = "4" -> 4 [] c = "5" -> 5

\* Whether float(s) returns: over Chars, exactly the non-empty digit texts.
IsFloat(s) == Len(s) > 0 /\ \A i \in 1..Len(s) : s[i] \in Digits

\* float(s) of a digit text.
RECURSIVE FloatOf(_)
FloatOf(s) ==
    IF s = <<>> THEN 0
    ELSE 10 * FloatOf(SubSeq(s, 1, Len(s) - 1)) + DigitVal(s[Len(s)])

\* s.split(":")
RECURSIVE SplitColon(_)
SplitColon(s) ==
    IF \A i \in 1..Len(s) : s[i] # ":" THEN <<s>>
    ELSE LET k == CHOOSE i \in 1..Len(s) :
                    s[i] = ":" /\ \A j \in 1..(i - 1) : s[j] # ":"
         IN <<SubSeq(s, 1, k - 1)>> \o SplitColon(SubSeq(s, k + 1, Len(s)))

Value(v) == [kind |-> "value", val |-> v]
Raised == [kind |-> "raised", val |-> 0]

\* clean_minutes; values in sixtieths of a minute.
clean_minutes(x) ==
    IF x.tag = "none" THEN Value(0)
    ELSE IF x.tag = "num" THEN Value(60 * x.num)
    ELSE IF \E i \in 1..Len(x.str) : x.str[i] = ":"
    THEN LET parts == SplitColon(x.str)
         IN IF Len(parts) # 2 THEN Raised             \* m, s = ... : ValueError
            ELSE IF ~IsFloat(parts[1]) \/ ~IsFloat(parts[2]) THEN Raised  \* float(): ValueError
            ELSE Value(60 * FloatOf(parts[1]) + FloatOf(parts[2]))
    ELSE IF IsFloat(x.str) THEN Value(60 * FloatOf(x.str))
    ELSE Value(0)

Texts == UNION {[1..n -> Chars] : n \in 0..MaxStrLen}

MinutesArgs ==
    {[tag |-> "none", num |-> 0, str |-> <<>>]}
    \cup {[tag |-> "num", num |-> n, str |-> <<>>] : n \in 0..MaxNum}
    \cup {[tag |-> "str", num |-> 0, str |-> t] : t \in Texts}

CleanMinutes ==
    /\ cmResult.kind = "pending"
    /\ cmResult' = clean_minutes(min_str)
    /\ UNCHANGED <<storeVars, ingestVars, featVars, rollVars, splitVars,
                   pipeVars, min_str, trigVars>>

\* --------------------------------------------------------- prelock_trigger

NTrigGames == 2      \* games on today's scoreboard
MaxScans == 3        \* pre-lock scans of the day

TGames == 1..NTrigGames

NoDispatch == [g \in TGames |-> 0]

\* save_event_log: the file rewritten with the whole log.
Saved(ids) == [ok |-> TRUE, ids |-> ids]

ScanEnd ==
    /\ tpc' = "idle"
    /\ tidx' = 0

\* main up to the loop: load_event_log and the scoreboard both return.
ScanStart ==
    /\ tpc = "idle" /\ scans < MaxScans
    /\ eventLog.ok
    /\ scans' = scans + 1
    /\ log_dict' = eventLog.ids
    /\ tpc' = "loop"
    /\ tidx' = 1
    /\ UNCHANGED <<storeVars, ingestVars, featVars, rollVars, splitVars,
                   pipeVars, minVars, eventLog, dispatched>>

\* json.load raises on a file a failed save left half written.
ScanStartLogUnreadable ==
    /\ tpc = "idle" /\ scans < MaxScans
    /\ ~eventLog.ok
    /\ scans' = scans + 1
    /\ UNCHANGED <<storeVars, ingestVars, featVars, rollVars, splitVars,
                   pipeVars, minVars, eventLog, log_dict, dispatched, tpc, tidx>>

\* The row is passed over: no tipoff, unparsable tipoff, already in the
\* log, or now outside the 30-minute window.
SkipGame ==
    /\ tpc = "loop" /\ tidx <= NTrigGames
    /\ tidx' = tidx + 1
    /\ UNCHANGED <<storeVars, ingestVars, featVars, rollVars, splitVars,
                   pipeVars, minVars, eventLog, log_dict, dispatched, tpc, scans>>

\* The test of line 110 that lets a row through to the window test.
NotYetTriggered(g) == g \notin log_dict

CanTrigger == tpc = "loop" /\ tidx <= NTrigGames /\ NotYetTriggered(tidx)

\* In the window: the POST returns (accepted or not, the status is only
\* logged), the game is appended and the log saved.
TriggerAndRecord(accepted) ==
    /\ CanTrigger
    /\ dispatched' = [dispatched EXCEPT ![tidx] = IF accepted THEN @ + 1 ELSE @]
    /\ log_dict' = log_dict \cup {tidx}
    /\ eventLog' = Saved(log_dict')
    /\ tidx' = tidx + 1
    /\ UNCHANGED <<storeVars, ingestVars, featVars, rollVars, splitVars,
                   pipeVars, minVars, tpc, scans>>

\* requests.post (or the log write after it) raises, the request sent or
\* not: the exception leaves main before the log is updated.
TriggerRaises(sent) ==
    /\ CanTrigger
    /\ dispatched' = [dispatched EXCEPT ![tidx] = IF sent THEN @ + 1 ELSE @]
    /\ ScanEnd
    /\ UNCHANGED <<storeVars, ingestVars, featVars, rollVars, splitVars,
                   pipeVars, minVars, eventLog, log_dict, scans>>

\* The POST is accepted and save_event_log raises (or the process ends
\* before it): the file is left as it was, or truncated by open(.., "w").
TriggerThenSaveFails(truncated) ==
    /\ CanTrigger
    /\ dispatched' = [dispatched EXCEPT ![tidx] = @ + 1]
    /\ log_dict' = log_dict \cup {tidx}
    /\ eventLog' = IF truncated THEN [ok |-> FALSE, ids |-> {}] ELSE eventLog
    /\ ScanEnd
    /\ UNCHANGED <<storeVars, ingestVars, featVars, rollVars, splitVars,
                   pipeVars, minVars, scans>>

\* "Scan complete."
ScanDone ==
    /\ tpc = "loop" /\ tidx > NTrigGames
    /\ ScanEnd
    /\ UNCHANGED <<storeVars, ingestVars, featVars, rollVars, splitVars,
                   pipeVars, minVars, eventLog, log_dict, dispatched, scans>>

\* ---------------------------------------------------------- specifications

StoreInit ==
    /\ games = {}
    /\ boxscores = NoRows
    /\ uniqueKey \in BOOLEAN

IngestInit ==
    /\ nGames \in 0..NGames
    /\ pc = "idle"
    /\ idx = 0
    /\ listResp = "none"
    /\ fetched = NoFetch
    /\ attempts = NoAttempts
    /\ outcome = "none"
    /\ runs = <<>>
    /\ calls = <<>>

FeatInit ==
    /\ teamLocs \in BOOLEAN
    /\ bfOutcome = NotBuilt
    /\ featureTable = {}

RollIdle ==
    /\ rdf = <<>>
    /\ rollSrc = <<>>
    /\ oppSrc = <<>>
    /\ rstage = "off"

SplitIdle ==
    /\ sdf = <<>>
    /\ cutoffArg = None
    /\ train = <<>>
    /\ test = <<>>
    /\ cutoff_date = 0
    /\ splitOutcome = "off"

IngestIdle ==
    /\ games = {}
    /\ boxscores = NoRows
    /\ uniqueKey = TRUE
    /\ nGames = 0
    /\ pc = "off"
    /\ idx = 0
    /\ listResp = "none"
    /\ fetched = NoFetch
    /\ attempts = NoAttempts
    /\ outcome = "none"
    /\ runs = <<>>
    /\ calls = <<>>
    /\ teamLocs = TRUE
    /\ bfOutcome = NotBuilt
    /\ featureTable = {}

PipeIdle ==
    /\ pkind = "off"
    /\ date_override = NoOverride
    /\ skip_flag = FALSE
    /\ pstep = "off"
    /\ cmds = <<>>

MinIdle ==
    /\ min_str = [tag |-> "none", num |-> 0, str |-> <<>>]
    /\ cmResult = [kind |-> "off", val |-> 0]

TrigIdle ==
    /\ eventLog = Saved({})
    /\ log_dict = {}
    /\ dispatched = NoDispatch
    /\ tpc = "off"
    /\ tidx = 0
    /\ scans = 0

Init == StoreInit /\ IngestInit /\ FeatInit /\ RollIdle /\ SplitIdle /\ PipeIdle /\ MinIdle /\ TrigIdle

Next ==
    \/ IngestListUnreachable
    \/ IngestListHttpError
    \/ IngestListEmpty
    \/ IngestListOk
    \/ FetchFail("transient")
    \/ FetchFail("permanent")
    \/ FetchOkInsertConflict
    \/ FetchOkInsert
    \/ SleepNext
    \/ SleepDone
    \/ Kill
    \/ BuildFeatures

Spec == Init /\ [][Next]_vars

RollInit ==
    /\ IngestIdle /\ SplitIdle /\ PipeIdle /\ MinIdle /\ TrigIdle
    /\ \E played \in SUBSET (RPlayers \X (1..RDates)), sched \in [1..RDates -> 1..NTeams] :
          rdf = FrameOf(played, sched)
    /\ rollSrc = <<>>
    /\ oppSrc = <<>>
    /\ rstage = "input"

SpecRolling == RollInit /\ [][ComputeRolling]_vars

ExampleTable == [i \in 1..ExampleRows |-> [id |-> i, game_date |-> i]]

Tables ==
    UNION {{[i \in 1..n |-> [id |-> i, game_date |-> f[i]]] : f \in [1..n -> 1..MaxDate]}
           : n \in 0..MaxRows}

SplitInit ==
    /\ IngestIdle /\ RollIdle /\ PipeIdle /\ MinIdle /\ TrigIdle
    /\ sdf \in Tables \cup {ExampleTable}
    /\ cutoffArg \in {None} \cup {<<d>> : d \in 1..MaxDate}
    /\ train = <<>>
    /\ test = <<>>
    /\ cutoff_date = 0
    /\ splitOutcome = "none"

SpecSplit == SplitInit /\ [][TrainTestSplit]_vars

PipeInit ==
    /\ StoreInit /\ IngestInit /\ FeatInit /\ RollIdle /\ SplitIdle /\ MinIdle /\ TrigIdle
    /\ pkind \in {"daily", "full"}
    /\ date_override \in (IF pkind = "daily" THEN {NoOverride} ELSE Overrides)
    /\ skip_flag \in (IF pkind = "daily" THEN {FALSE} ELSE BOOLEAN)
    /\ pstep = "start"
    /\ cmds = <<>>

PipeNext ==
    \/ LaunchIngest
    \/ SkipIngestLaunchFeatures
    \/ PipeIngestStart
    \/ PipeIngestLoop
    \/ IngestEnded
    \/ PipeBuildFeatures
    \/ FeaturesEnded
    \/ DatasetEnded

SpecPipeline == PipeInit /\ [][PipeNext]_vars

MinutesInit ==
    /\ IngestIdle /\ RollIdle /\ SplitIdle /\ PipeIdle /\ TrigIdle
    /\ min_str \in MinutesArgs
    /\ cmResult = [kind |-> "pending", val |-> 0]

SpecMinutes == MinutesInit /\ [][CleanMinutes]_vars

TrigInit ==
    /\ IngestIdle /\ RollIdle /\ SplitIdle /\ PipeIdle /\ MinIdle
    /\ eventLog = Saved({})
    /\ log_dict = {}
    /\ dispatched = NoDispatch
    /\ tpc = "idle"
    /\ tidx = 0
    /\ scans = 0

TrigNext ==
    \/ ScanStart
    \/ ScanStartLogUnreadable
    \/ SkipGame
    \/ TriggerAndRecord(TRUE)
    \/ TriggerAndRecord(FALSE)
    \/ TriggerRaises(TRUE)
    \/ TriggerRaises(FALSE)
    \/ TriggerThenSaveFails(TRUE)
    \/ TriggerThenSaveFails(FALSE)
    \/ ScanDone

SpecTrigger == TrigInit /\ [][TrigNext]_vars

\* ------------------------------------------------------------------ claims

\* The provider answered every call of run r and nothing stopped the run.
ProviderServed(r) ==
    /\ r.list = "ok"
    /\ r.outcome # "killed"
    /\ \A g \in GameIds : r.fetched[g] \in {"none", "ok"}

Returned == {"returned_no_games", "returned_complete"}

\* C1: two ingest_date calls in a row for the same date, the provider serving
\* the same contents both times, both complete, and the second leaves the
\* boxscores table as the first left it, with no (game_id, player_id) stored
\* twice.
C1_Idempotent ==
    \A i \in 1..(Len(runs) - 1) :
        (ProviderServed(runs[i]) /\ ProviderServed(runs[i + 1]))
        => /\ runs[i].outcome \in Returned
           /\ runs[i + 1].outcome \in Returned
           /\ runs[i + 1].box = runs[i].box
           /\ \A k \in Keys : runs[i + 1].box[k] <= 1

\* C2: when a game's boxscore fetch fails, the loop of ingest_date still
\* goes on to every later game of the date: a call that got the game list
\* and was not terminated ends with every listed game attempted and every
\* game whose fetch succeeded stored.
C2_FailureIsolated ==
    \A i \in 1..Len(runs) :
        (runs[i].list = "ok" /\ runs[i].outcome # "killed")
        => \A g \in Listed :
              /\ runs[i].attempts[g] >= 1
              /\ runs[i].fetched[g] = "ok" => \A k \in BoxRows(g) : runs[i].box[k] >= 1

\* C3: after a first call that stored some games and failed or skipped
\* another, a second call served by the provider ends with every listed
\* game's records stored exactly once.
C3_ResumeAfterPartial ==
    \A i \in 1..(Len(runs) - 1) :
        (/\ runs[i].list = "ok"
         /\ \E g \in Listed : runs[i].fetched[g] = "ok"
         /\ \E g \in Listed : runs[i].fetched[g] # "ok"
         /\ ProviderServed(runs[i + 1]))
        => \A g \in Listed : \A k \in BoxRows(g) : runs[i + 1].box[k] = 1

\* C4: whenever no ingest_date call is running, every Game row of the games
\* table has its BoxscoreRecord rows in the boxscores table.
C4_NoGameWithoutBoxscores ==
    pc = "idle" => \A g \in games : \A k \in BoxRows(g) : boxscores[k] >= 1

\* C5: a call whose game list could not be obtained (non-200 response or
\* unreachable provider) ends with a failure, not with the return of a date
\* without games, and leaves the store as it was.
C5_GameListFailureFatal ==
    \A i \in 1..Len(runs) :
        runs[i].list \in {"http_error", "unreachable"}
        => /\ runs[i].outcome = "raised"
           /\ runs[i].games = (IF i = 1 THEN {} ELSE runs[i - 1].games)
           /\ runs[i].box = (IF i = 1 THEN NoRows ELSE runs[i - 1].box)

\* C6: a boxscore fetch that failed transiently is attempted again; a
\* permanent failure is attempted once.
C6_TransientRetried ==
    \A i \in 1..Len(runs) :
        runs[i].outcome # "killed"
        => \A g \in GameIds :
              /\ runs[i].fetched[g] = "transient" => runs[i].attempts[g] >= 2
              /\ runs[i].fetched[g] = "permanent" => runs[i].attempts[g] = 1

C8_FeatureTableComplete ==
    (bfOutcome.result # "none" /\ bfOutcome.result # "returned_no_data" /\ teamLocs)
    => /\ bfOutcome.result = "returned"
       /\ featureTable = bfOutcome.read

DistinctDates(df) ==
    \A i, j \in 1..Len(df) : i # j => df[i].game_date # df[j].game_date

\* C9: with no cutoff supplied and pairwise distinct dates, train is exactly
\* the first floor(0.8 n) rows in date order and test the remaining rows
\* (80 and 20 of 100).
C9_DefaultSplitSize ==
    (splitOutcome = "returned" /\ cutoffArg = None /\ DistinctDates(sdf))
    => LET df == SortSeq(sdf, ByDate)
           n == Len(df)
       IN /\ train = SubSeq(df, 1, (4 * n) \div 5)
          /\ test = SubSeq(df, (4 * n) \div 5 + 1, n)

RowsOf(df) == {df[i] : i \in 1..Len(df)}

\* C10: the frames train_test_split returns are disjoint, together hold
\* every row of the input, train holds exactly the rows dated on or before
\* the cutoff (rows dated at the cutoff included), test the rows dated
\* strictly after it, and no test row is dated earlier than a train row.
C10_TimeForward ==
    splitOutcome = "returned"
    => /\ RowsOf(train) \cap RowsOf(test) = {}
       /\ RowsOf(train) \cup RowsOf(test) = RowsOf(sdf)
       /\ Len(train) + Len(test) = Len(sdf)
       /\ \A r \in RowsOf(train) : r.game_date <= cutoff_date
       /\ \A r \in RowsOf(test) : r.game_date > cutoff_date
       /\ \A r \in RowsOf(sdf) : r.game_date = cutoff_date => r \in RowsOf(train)
       /\ \A t \in RowsOf(test) : \A r \in RowsOf(train) : ~(t.game_date < r.game_date)
       /\ cutoffArg # None => cutoff_date = cutoffArg[1]

\* A split with a computed cutoff, two rows tied at the cutoff date and a
\* row after it.
C10_Witness ==
    /\ splitOutcome = "returned"
    /\ cutoffArg = None
    /\ test # <<>>
    /\ \E i, j \in 1..Len(train) :
          i # j /\ train[i].game_date = cutoff_date /\ train[j].game_date = cutoff_date

SetOf(q) == {q[i] : i \in 1..Len(q)}

\* C11: in a pipeline run, once the feature build has been started after an
\* ingestion step, that step has ended and every game it wrote to the games
\* table has its boxscore rows written.
C11_IngestBeforeFeatures ==
    ("ingest" \in SetOf(cmds) /\ "features" \in SetOf(cmds))
    => /\ pc = "idle"
       /\ \A g \in games : \A k \in BoxRows(g) : boxscores[k] >= 1

PipeEnded == pstep \in {"exit", "models"}

WellFormed(t) ==
    LET parts == SplitColon(t)
    IN Len(parts) = 2 /\ IsFloat(parts[1]) /\ IsFloat(parts[2])

\* C13: clean_minutes returns a value for every argument; a well-formed
\* "MM:SS" gives MM + SS/60, and a missing or invalid argument gives 0.0.
C13_MinutesTotal ==
    cmResult.kind \notin {"pending", "off"}
    => /\ cmResult.kind = "value"
       /\ (min_str.tag = "str" /\ WellFormed(min_str.str))
          => LET parts == SplitColon(min_str.str)
             IN cmResult.val = 60 * FloatOf(parts[1]) + FloatOf(parts[2])
       /\ (\/ min_str.tag = "none"
           \/ min_str.tag = "str" /\ ~WellFormed(min_str.str) /\ ~IsFloat(min_str.str))
          => cmResult.val = 0

IsCall(c) == c \in {"list", "box"}

\* C14: within one ingest_date call no provider call directly follows
\* another: a sleep lies between any two consecutive provider calls.
C14_RateLimitDelay ==
    \A i \in 1..(Len(calls) - 1) : ~(IsCall(calls[i]) /\ IsCall(calls[i + 1]))

\* C15: a dispatch reaches GitHub only for a game that has had none so far
\* today and that is not recorded in the event log.
C15_AtMostOnce ==
    [][\A g \in TGames :
          dispatched'[g] > dispatched[g]
          => dispatched[g] = 0 /\ g \notin eventLog.ids]_vars

====
